---- MODULE Spec2Model ----
(***************************************************************************)
(* khimera.plugins.create.Plugin: a named bundle of field-keyed Component  *)
(* Sets, mutated by add / remove and queried by get / filter / copy.       *)
(*                                                                         *)
(* Python objects live in heaps so that aliasing is visible:               *)
(*   objs    : object id -> [name, cls, owner]   (the values given to add) *)
(*   dicts   : dict id   -> [key -> sequence of object ids]                *)
(*             (a TypeConstrainedDict whose values are ComponentSets; a    *)
(*             ComponentSet is identified by the dict and key holding it)  *)
(*   plugins : plugin id -> [model, name, version, components (dict id)]   *)
(* view is the mapping a caller keeps from filter(); last is the most      *)
(* recent call with its arguments, its return value and its exception.     *)
(***************************************************************************)
EXTENDS Integers, Sequences, FiniteSets, TLC

VARIABLES plugins, dicts, objs, view, last

vars == <<plugins, dicts, objs, view, last>>

----------------------------------------------------------------------------
(* Bounds and input sets *)

MaxLen == 2

MaxObjs == 8

ObjIds == 1 .. MaxObjs

Keys == {"k1", "k2"}

Names == {"a", "b"}

None == "None"

NoOwner == "unattached"

Categories == {"Component", "Command", "Asset"}

(* The objects the provider creates before any call: three Components (two *)
(* of them share the name "a"), an object that has name and attach but is  *)
(* no Component, and a plain string.                                       *)
ProvidedObjs ==
    [o \in 1 .. 5 |->
        CASE o = 1 -> [name |-> "a", cls |-> "Command", owner |-> NoOwner]
          [] o = 2 -> [name |-> "b", cls |-> "Asset", owner |-> NoOwner]
          [] o = 3 -> [name |-> "a", cls |-> "Asset", owner |-> NoOwner]
          [] o = 4 -> [name |-> "a", cls |-> "Duck", owner |-> NoOwner]
          [] OTHER -> [name |-> "", cls |-> "str", owner |-> NoOwner]]

----------------------------------------------------------------------------
(* khimera.components.core and khimera.utils.factories, as the             *)
(* specification describes them                                            *)

\* isinstance(contrib, Component)
IsComponent(O, o) == O[o].cls \in {"Command", "Asset"}

\* isinstance(item, category) for a stored Component
IsInstance(O, o, category) ==
    IsComponent(O, o) /\ (category = "Component" \/ O[o].cls = category)

\* hasattr(contrib, "attach")
HasAttach(O, o) == O[o].cls # "str"

\* Component.attach(providerName): records the owner
Attach(O, o, providerName) == [O EXCEPT ![o].owner = providerName]

\* ComponentSet(): an empty type-constrained list of Components
ComponentSet == <<>>

\* TypeConstrainedDict.__setitem__(key, value) with a well-typed value
DictSetItem(D, key, value) ==
    [k \in DOMAIN D \cup {key} |-> IF k = key THEN value ELSE D[k]]

\* TypeConstrainedDict.__delitem__(key) for a present key
DictDelItem(D, key) == [k \in DOMAIN D \ {key} |-> D[k]]

\* list.remove(x): drops the first element equal to x (identity for objects)
ListRemove(items, x) ==
    LET hits == {i \in 1 .. Len(items) : items[i] = x}
        j == CHOOSE i \in hits : \A h \in hits : i <= h
    IN  [i \in 1 .. Len(items) - 1 |-> IF i < j THEN items[i] ELSE items[i + 1]]

----------------------------------------------------------------------------
(* Plugin.add *)

\* lines 127-128: if key not in self.components: self.components[key] = ComponentSet()
add_init_storage(D, key) ==
    IF key \notin DOMAIN D THEN DictSetItem(D, key, ComponentSet) ELSE D

\* A variant of line 129 that stamps only a contrib that has no owner yet
add_attach_once(O, contrib, name) ==
    IF O[contrib].owner = NoOwner THEN Attach(O, contrib, name) ELSE O

\* line 129: contrib.attach(self.name)
add_attach(O, contrib, name) == Attach(O, contrib, name)

\* A variant of line 130 that inserts contrib at the front
add_prepend(D, key, contrib) == [D EXCEPT ![key] = <<contrib>> \o @]

\* line 130: self.components[key].append(contrib), for a Component
add_append(D, key, contrib) == [D EXCEPT ![key] = Append(@, contrib)]

\* The whole method: the heaps after the call and the exception it raised.
Plugin_add(P, Ds, O, self, key, contrib) ==
    LET d == P[self].components
        D1 == add_init_storage(Ds[d], key)
    IN  IF ~HasAttach(O, contrib)
        THEN [dicts |-> [Ds EXCEPT ![d] = D1], objs |-> O,
              exc |-> "AttributeError"]
        ELSE LET O1 == add_attach(O, contrib, P[self].name)
             IN  IF ~IsComponent(O1, contrib)
                 THEN [dicts |-> [Ds EXCEPT ![d] = D1], objs |-> O1,
                       exc |-> "TypeError"]
                 ELSE [dicts |-> [Ds EXCEPT ![d] = add_append(D1, key, contrib)],
                       objs |-> O1, exc |-> "none"]

----------------------------------------------------------------------------
(* Plugin.__init__ *)

RECURSIVE init_kwargs(_, _, _, _, _)
\* lines 98-99: for key, value in kwargs.items(): self.add(key=key, contrib=value)
init_kwargs(P, Ds, O, self, kwargs) ==
    IF kwargs = <<>> THEN [dicts |-> Ds, objs |-> O]
    ELSE LET r == Plugin_add(P, Ds, O, self, Head(kwargs)[1], Head(kwargs)[2])
         IN  init_kwargs(P, r.dicts, r.objs, self, Tail(kwargs))

\* lines 94-97: the fields; components is a new, empty TypeConstrainedDict
Plugin_fields(self, name, version) ==
    [model |-> "model", name |-> name, version |-> version, components |-> self]

----------------------------------------------------------------------------
(* Plugin.remove *)

\* A variant of line 163 that takes the last match
remove_next_last(items, O, contrib_name) ==
    LET hits == {i \in 1 .. Len(items) : O[items[i]].name = contrib_name}
    IN  IF hits = {} THEN 0 ELSE CHOOSE i \in hits : \A h \in hits : i >= h

\* line 163: next(contrib for contrib in self.components[key]
\*                if contrib.name == contrib_name)
\* The position of the first match; 0 when the generator is exhausted, where
\* next() raises StopIteration.
remove_next(items, O, contrib_name) ==
    LET hits == {i \in 1 .. Len(items) : O[items[i]].name = contrib_name}
    IN  IF hits = {} THEN 0 ELSE CHOOSE i \in hits : \A h \in hits : i <= h

\* line 164: self.components[key].remove(contrib)
remove_contrib(D, key, contrib) == [D EXCEPT ![key] = ListRemove(@, contrib)]

\* A variant of line 160 that empties the ComponentSet and keeps the key
remove_key_clear(D, key) == [D EXCEPT ![key] = <<>>]

\* line 160: del self.components[key]
remove_key(D, key) == DictDelItem(D, key)

\* The whole method.  The handler of line 165 catches ValueError only, which
\* list.remove raises for an element that is not in the list; contrib was
\* taken from that list, so the handler never runs, and the StopIteration of
\* line 163 is no ValueError and leaves the method as it is.
Plugin_remove(P, Ds, O, self, key, contrib_name) ==
    LET d == P[self].components
        D == Ds[d]
    IN  IF key \notin DOMAIN D
        THEN [dicts |-> Ds, exc |-> "KeyError"]
        ELSE IF contrib_name = None
        THEN [dicts |-> [Ds EXCEPT ![d] = remove_key(D, key)], exc |-> "none"]
        ELSE LET i == remove_next(D[key], O, contrib_name)
             IN  IF i = 0
                 THEN [dicts |-> Ds, exc |-> "StopIteration"]
                 ELSE [dicts |-> [Ds EXCEPT ![d] = remove_contrib(D, key, D[key][i])],
                       exc |-> "none"]

----------------------------------------------------------------------------
(* Return values.  A ComponentSet held in a dict of the heap is returned   *)
(* by reference (its dict and key); a collection built by the call is      *)
(* returned by value.                                                      *)

StoredSet(d, key) == [kind |-> "ComponentSet", dict |-> d, key |-> key]

NoValue == [kind |-> "none"]

Self(self) == [kind |-> "Plugin", plugin |-> self]

\* The elements of a returned collection, read through the heap
Items(Ds, r) ==
    IF "items" \in DOMAIN r THEN r.items
    ELSE IF r.dict \in DOMAIN Ds /\ r.key \in DOMAIN Ds[r.dict]
         THEN Ds[r.dict][r.key]
         ELSE <<>>

\* The keys and elements of a returned mapping, read through the heap
MapItems(Ds, r) ==
    IF r.kind = "TypeConstrainedDict" THEN Ds[r.dict]
    ELSE [k \in DOMAIN r.map |-> Items(Ds, r.map[k])]

----------------------------------------------------------------------------
(* Plugin.get, Plugin.filter *)

\* line 183: return self.components.get(key, [])
Plugin_get(P, Ds, self, key) ==
    LET d == P[self].components
    IN  IF key \in DOMAIN Ds[d] THEN StoredSet(d, key)
        ELSE [kind |-> "list", items |-> <<>>]

\* A variant of line 201 that prunes each ComponentSet to the instances of
\* category
filter_category_pruned(P, Ds, O, self, category) ==
    LET D == Ds[P[self].components]
        keep == {k \in DOMAIN D :
                    \E i \in 1 .. Len(D[k]) : IsInstance(O, D[k][i], category)}
    IN  [kind |-> "dict",
         map |-> [k \in keep |->
                    [kind |-> "ComponentSet",
                     items |-> SelectSeq(D[k], LAMBDA o : IsInstance(O, o, category))]]]

\* line 201: {key: contribs for key, contribs in self.components.items()
\*            if any(isinstance(item, category) for item in contribs)}
filter_category(P, Ds, O, self, category) ==
    LET d == P[self].components
        D == Ds[d]
        keep == {k \in DOMAIN D :
                    \E i \in 1 .. Len(D[k]) : IsInstance(O, D[k][i], category)}
    IN  [kind |-> "dict", map |-> [k \in keep |-> StoredSet(d, k)]]

\* A variant of line 202 that returns a new dict of the same ComponentSets
filter_all_snapshot(P, Ds, self) ==
    LET d == P[self].components
    IN  [kind |-> "dict", map |-> [k \in DOMAIN Ds[d] |-> StoredSet(d, k)]]

\* line 202: return self.components
filter_all(P, Ds, self) ==
    [kind |-> "TypeConstrainedDict", dict |-> P[self].components]

\* lines 200-202
Plugin_filter(P, Ds, O, self, category) ==
    IF category # None THEN filter_category(P, Ds, O, self, category)
    ELSE filter_all(P, Ds, self)

----------------------------------------------------------------------------
(* Plugin.copy *)

Range(items) == {items[i] : i \in 1 .. Len(items)}

\* The objects stored in a components mapping
Stored(D) == UNION {Range(D[k]) : k \in DOMAIN D}

\* The n-th smallest element of a set of object ids
Nth(S, n) == CHOOSE x \in S : Cardinality({y \in S : y <= x}) = n

\* deepcopy's memo: each stored object gets one new object, at a free id
copy_memo(D, O) ==
    LET stored == Stored(D)
        free == ObjIds \ DOMAIN O
    IN  [o \in stored |-> Nth(free, Cardinality({x \in stored : x <= o}))]

\* A variant of line 217 that copies the plugin object only (copy.copy): the
\* new plugin shares the components mapping
Plugin_copy_shallow(P, Ds, O, self, new) ==
    [plugins |-> [s \in DOMAIN P \cup {new} |-> IF s = new THEN P[self] ELSE P[s]],
     dicts |-> Ds,
     objs |-> O]

\* line 217: return copy.deepcopy(self).  The new plugin, its new dict (at the
\* id new), new ComponentSets and new Components.
Plugin_copy(P, Ds, O, self, new) ==
    LET d == P[self].components
        D == Ds[d]
        memo == copy_memo(D, O)
        fresh == {memo[o] : o \in DOMAIN memo}
        origin(n) == CHOOSE o \in DOMAIN memo : memo[o] = n
    IN  [plugins |-> [s \in DOMAIN P \cup {new} |->
                        IF s = new THEN [P[self] EXCEPT !.components = new]
                        ELSE P[s]],
         dicts |-> [e \in DOMAIN Ds \cup {new} |->
                        IF e = new
                        THEN [k \in DOMAIN D |->
                                [i \in 1 .. Len(D[k]) |-> memo[D[k][i]]]]
                        ELSE Ds[e]],
         objs |-> [o \in DOMAIN O \cup fresh |->
                        IF o \in fresh THEN O[origin(o)] ELSE O[o]]]

----------------------------------------------------------------------------
(* The calls *)

Call(op, self, key, contrib, name, exc, ret) ==
    [op |-> op, self |-> self, key |-> key, contrib |-> contrib,
     name |-> name, exc |-> exc, ret |-> ret]

\* The components mapping of a plugin
Components(self) == dicts[plugins[self].components]

\* plugin.add(key, contrib); a ComponentSet grows to MaxLen elements at most
Add(self, key, contrib) ==
    /\ self \in DOMAIN plugins
    /\ contrib \in DOMAIN objs
    /\ key \in DOMAIN Components(self) => Len(Components(self)[key]) < MaxLen
    /\ LET r == Plugin_add(plugins, dicts, objs, self, key, contrib)
       IN  /\ dicts' = r.dicts
           /\ objs' = r.objs
           /\ last' = Call("add", self, key, contrib, "", r.exc,
                           IF r.exc = "none" THEN Self(self) ELSE NoValue)
    /\ UNCHANGED <<plugins, view>>

\* plugin.remove(key) and plugin.remove(key, contrib_name)
Remove(self, key, contrib_name) ==
    /\ self \in DOMAIN plugins
    /\ LET r == Plugin_remove(plugins, dicts, objs, self, key, contrib_name)
       IN  /\ dicts' = r.dicts
           /\ last' = Call("remove", self, key, 0, contrib_name, r.exc,
                           IF r.exc = "none" THEN Self(self) ELSE NoValue)
    /\ UNCHANGED <<plugins, objs, view>>

\* plugin.get(key)
Get(self, key) ==
    /\ self \in DOMAIN plugins
    /\ last' = Call("get", self, key, 0, "", "none",
                    Plugin_get(plugins, dicts, self, key))
    /\ UNCHANGED <<plugins, dicts, objs, view>>

\* plugin.filter(category) and plugin.filter(); the caller keeps the mapping
\* that filter() returns
Filter(self, category) ==
    /\ self \in DOMAIN plugins
    /\ LET ret == Plugin_filter(plugins, dicts, objs, self, category)
       IN  /\ last' = Call("filter", self, "", 0, category, "none", ret)
           /\ view' = IF category = None THEN ret ELSE view
    /\ UNCHANGED <<plugins, dicts, objs>>

\* view[key] = value, on the mapping kept from filter(): value is a new
\* ComponentSet() or a plain list, which a TypeConstrainedDict rejects
ViewSetItem(key, value) ==
    /\ view.kind # "none"
    /\ IF view.kind = "TypeConstrainedDict"
       THEN IF value = "ComponentSet"
            THEN /\ dicts' = [dicts EXCEPT ![view.dict] =
                                  DictSetItem(@, key, ComponentSet)]
                 /\ last' = Call("view.setitem", "", key, 0, value, "none", NoValue)
                 /\ UNCHANGED view
            ELSE /\ last' = Call("view.setitem", "", key, 0, value, "TypeError",
                                 NoValue)
                 /\ UNCHANGED <<dicts, view>>
       ELSE /\ view' = [view EXCEPT !.map =
                            DictSetItem(@, key, [kind |-> value, items |-> <<>>])]
            /\ last' = Call("view.setitem", "", key, 0, value, "none", NoValue)
            /\ UNCHANGED dicts
    /\ UNCHANGED <<plugins, objs>>

\* del view[key], on the mapping kept from filter()
ViewDelItem(key) ==
    /\ view.kind # "none"
    /\ IF key \notin DOMAIN MapItems(dicts, view)
       THEN /\ last' = Call("view.delitem", "", key, 0, "", "KeyError", NoValue)
            /\ UNCHANGED <<dicts, view>>
       ELSE /\ last' = Call("view.delitem", "", key, 0, "", "none", NoValue)
            /\ IF view.kind = "TypeConstrainedDict"
               THEN /\ dicts' = [dicts EXCEPT ![view.dict] = DictDelItem(@, key)]
                    /\ UNCHANGED view
               ELSE /\ view' = [view EXCEPT !.map = DictDelItem(@, key)]
                    /\ UNCHANGED dicts
    /\ UNCHANGED <<plugins, objs>>

\* new = plugin.copy()
Copy(self, new) ==
    /\ self \in DOMAIN plugins
    /\ new \notin DOMAIN plugins
    /\ Cardinality(ObjIds \ DOMAIN objs) >= Cardinality(Stored(Components(self)))
    /\ LET r == Plugin_copy(plugins, dicts, objs, self, new)
       IN  /\ plugins' = r.plugins
           /\ dicts' = r.dicts
           /\ objs' = r.objs
    /\ last' = Call("copy", self, "", 0, "", "none", Self(new))
    /\ UNCHANGED view

----------------------------------------------------------------------------
(* One plugin and the mapping its caller keeps from filter() *)

EmptyDict == [k \in {} |-> <<>>]

\* Plugin(model, name, version, **kwargs) for each id of ids, kwargs given to
\* the first
Constructed(ids, first, kwargs) ==
    LET P == [s \in ids |-> Plugin_fields(s, s, "1.0")]
        r == init_kwargs(P, [s \in ids |-> EmptyDict], ProvidedObjs, first, kwargs)
    IN  /\ plugins = P
        /\ dicts = r.dicts
        /\ objs = r.objs
        /\ view = NoValue
        /\ last = Call("init", first, "", 0, "", "none", Self(first))

InitKwargs == {<<>>} \cup {<< <<key, contrib>> >> : key \in Keys, contrib \in {1, 2, 3}}

Init == \E kwargs \in InitKwargs : Constructed({"p"}, "p", kwargs)

Next ==
    \/ \E key \in Keys, contrib \in DOMAIN objs : Add("p", key, contrib)
    \/ \E key \in Keys, contrib_name \in Names \cup {None} :
            Remove("p", key, contrib_name)
    \/ \E key \in Keys : Get("p", key)
    \/ \E category \in Categories \cup {None} : Filter("p", category)
    \/ \E key \in Keys, value \in {"ComponentSet", "list"} : ViewSetItem(key, value)
    \/ \E key \in Keys : ViewDelItem(key)

Spec == Init /\ [][Next]_vars

----------------------------------------------------------------------------
(* Two plugins that are given the same Components *)

InitOwner == Constructed({"p", "q"}, "p", <<>>)

NextOwner ==
    \/ \E key \in Keys, contrib \in {1, 2, 3} : Add("p", key, contrib)
    \/ \E contrib \in {1, 2, 3} : Add("q", "k1", contrib)

SpecOwner == InitOwner /\ [][NextOwner]_vars

----------------------------------------------------------------------------
(* A plugin, its copy, and a second plugin that is given one of the        *)
(* Components of the first.  The provider adds its Components 1 and 2 and  *)
(* the copies that copy() made, under one key.                             *)

InitCopy == Constructed({"p", "q"}, "p", <<>>)

NextCopy ==
    \/ \E self \in {"p", "c"}, contrib \in DOMAIN objs \ {3, 4, 5} :
            Add(self, "k1", contrib)
    \/ \E self \in {"p", "c"}, contrib_name \in Names \cup {None} :
            Remove(self, "k1", contrib_name)
    \/ Add("q", "k2", 1)
    \/ Copy("p", "c")

SpecCopy == InitCopy /\ [][NextCopy]_vars

----------------------------------------------------------------------------
(* Properties.  A step is recognised by the call recorded in last'; the    *)
(* unprimed variables are the state before the call.                       *)

\* The names of the elements of a ComponentSet
NamesOf(O, items) == {O[items[i]].name : i \in 1 .. Len(items)}

\* Every object stored in some dict of the heap
StoredAnywhere(Ds) == UNION {Stored(Ds[d]) : d \in DOMAIN Ds}

\* C1: remove(key, contrib_name), for a key in plugin.components and a name
\* that no component under key has, fails with ValueError and leaves the
\* components mapping and every Component Set as they were.
C1_RemoveUnknownNameIsValueError ==
    [][\A key \in Keys, n \in Names :
          (/\ last'.op = "remove" /\ last'.self = "p"
           /\ last'.key = key /\ last'.name = n
           /\ key \in DOMAIN Components("p")
           /\ n \notin NamesOf(objs, Components("p")[key]))
          => (last'.exc = "ValueError" /\ dicts' = dicts)]_vars

\* C2: add(key, contrib) with a contrib that is no Component fails with
\* TypeError before any mutation: the components mapping has the same keys and
\* the same Component Sets after the call, and contrib is stored under no key.
C2_AddNonComponentIsAtomic ==
    [][(last'.op = "add" /\ ~IsComponent(objs, last'.contrib))
          => (/\ last'.exc = "TypeError"
              /\ dicts' = dicts
              /\ last'.contrib \notin StoredAnywhere(dicts'))]_vars

\* C3: get(key) never fails and changes nothing; for a present key it returns
\* the stored Component Set, for an absent key an empty Component Set (the
\* same kind of value), and the key is not added.
C3_GetReturnsComponentSet ==
    [][last'.op = "get"
          => (/\ last'.exc = "none"
              /\ plugins' = plugins /\ dicts' = dicts /\ objs' = objs
              /\ last'.ret.kind = "ComponentSet"
              /\ IF last'.key \in DOMAIN Components(last'.self)
                 THEN last'.ret = StoredSet(plugins[last'.self].components, last'.key)
                 ELSE Items(dicts', last'.ret) = <<>>)]_vars

\* C4: remove(key, contrib_name), when a component under key has that name,
\* removes exactly the first such component in insertion order; the other
\* components under key (later ones of the same name too) keep their order,
\* every other key is unchanged and key stays in plugin.components.
C4_RemoveFirstOfName ==
    [][\A key \in Keys, n \in Names :
          (/\ last'.op = "remove" /\ last'.self = "p"
           /\ last'.key = key /\ last'.name = n
           /\ key \in DOMAIN Components("p")
           /\ n \in NamesOf(objs, Components("p")[key]))
          => LET before == Components("p")
                 after == Components("p")'
                 items == before[key]
                 j == CHOOSE i \in 1 .. Len(items) :
                        /\ objs[items[i]].name = n
                        /\ \A h \in 1 .. i - 1 : objs[items[h]].name # n
             IN  /\ last'.exc = "none"
                 /\ DOMAIN after = DOMAIN before
                 /\ Len(after[key]) = Len(items) - 1
                 /\ \A i \in 1 .. Len(items) - 1 :
                        after[key][i] = IF i < j THEN items[i] ELSE items[i + 1]
                 /\ \A k \in DOMAIN before \ {key} : after[k] = before[k]
                 /\ objs' = objs]_vars

\* C4 happens: a component named "a" was removed and a later component of the
\* same name is still there.
C4_Witness ==
    /\ last.op = "remove" /\ last.exc = "none" /\ last.name = "a"
    /\ last.key \in DOMAIN Components("p")
    /\ "a" \in NamesOf(objs, Components("p")[last.key])

\* C5: remove(key) without a name, for a key in plugin.components, deletes the
\* entry: key is not in plugin.components, get(key) is empty, and every other
\* key maps to the same Component Set with the same contents.
C5_RemoveKeyDeletesEntry ==
    [][\A key \in Keys :
          (/\ last'.op = "remove" /\ last'.self = "p"
           /\ last'.key = key /\ last'.name = None
           /\ key \in DOMAIN Components("p"))
          => LET before == Components("p")
                 after == Components("p")'
             IN  /\ last'.exc = "none"
                 /\ key \notin DOMAIN after
                 /\ Items(dicts', Plugin_get(plugins', dicts', "p", key)) = <<>>
                 /\ DOMAIN after = DOMAIN before \ {key}
                 /\ \A k \in DOMAIN after : after[k] = before[k]
                 /\ objs' = objs]_vars

\* C5 happens: a key with components was removed while another key holds some.
C5_Witness ==
    /\ last.op = "remove" /\ last.exc = "none" /\ last.name = None
    /\ last.key \notin DOMAIN Components("p")
    /\ \E k \in DOMAIN Components("p") : Components("p")[k] # <<>>

\* C6: filter(category) returns a mapping whose keys are exactly the keys whose
\* Component Set holds at least one instance of category, each mapped to the
\* original, full Component Set stored for the key.
C6_FilterByCategory ==
    (last.op = "filter" /\ last.name # None)
        => LET D == Components(last.self)
               m == last.ret.map
           IN  /\ last.exc = "none"
               /\ DOMAIN m = {k \in DOMAIN D :
                                \E i \in 1 .. Len(D[k]) :
                                    IsInstance(objs, D[k][i], last.name)}
               /\ \A k \in DOMAIN m :
                    /\ m[k] = StoredSet(plugins[last.self].components, k)
                    /\ Items(dicts, m[k]) = D[k]

\* C6 happens: a returned set holds a component of another category, and a key
\* of the plugin is left out.
C6_Witness ==
    /\ last.op = "filter" /\ last.name = "Command"
    /\ \E k \in DOMAIN last.ret.map :
          \E i \in 1 .. Len(Items(dicts, last.ret.map[k])) :
              ~IsInstance(objs, Items(dicts, last.ret.map[k])[i], "Command")
    /\ DOMAIN Components("p") \ DOMAIN last.ret.map # {}

\* C8: the mapping returned by filter() is plugin.components itself: after any
\* add / remove on the plugin and any insertion / deletion through the
\* returned mapping, both have the same keys and the same contents.
C8_FilterAllIsLive ==
    view.kind # "none" => MapItems(dicts, view) = Components("p")

\* C8 happens: an entry was deleted through the returned mapping while the
\* plugin still holds components.
C8_Witness ==
    /\ view.kind # "none"
    /\ last.op = "view.delitem" /\ last.exc = "none"
    /\ \E k \in DOMAIN Components("p") : Components("p")[k] # <<>>

\* C9: a successful add(key, c) appends c to the Component Set of key, creating
\* the key when it is new, and changes no other key: get(key) yields the
\* components added under key in the order of their add calls.
C9_AddKeepsInsertionOrder ==
    [][\A key \in Keys :
          (/\ last'.op = "add" /\ last'.self = "p"
           /\ last'.key = key /\ last'.exc = "none")
          => LET before == Components("p")
                 after == Components("p")'
                 old == IF key \in DOMAIN before THEN before[key] ELSE <<>>
             IN  /\ DOMAIN after = DOMAIN before \cup {key}
                 /\ after[key] = Append(old, last'.contrib)
                 /\ Items(dicts', Plugin_get(plugins', dicts', "p", key))
                        = Append(old, last'.contrib)
                 /\ \A k \in DOMAIN before \ {key} : after[k] = before[k]]_vars

\* C9 happens: a second, different component was added under a key.
C9_Witness ==
    /\ last.op = "add" /\ last.exc = "none"
    /\ Len(Components("p")[last.key]) = 2
    /\ Components("p")[last.key][1] # Components("p")[last.key][2]

\* C10: add(key, c) on a plugin stamps c with the name of that plugin whatever
\* owner c had, raises nothing, changes no other object, and leaves c stored
\* in the plugins that hold it: the owner of a component is the plugin whose
\* add was called with it most recently.
C10_OwnerIsLastAdder ==
    [][last'.op = "add"
          => (/\ last'.exc = "none"
              /\ objs'[last'.contrib].owner = plugins[last'.self].name
              /\ \A o \in DOMAIN objs \ {last'.contrib} : objs'[o] = objs[o]
              /\ \A t \in DOMAIN plugins \ {last'.self} :
                    Components(t)' = Components(t))]_vars

\* C10 happens: a component stored in p with owner p was added to q.
C10_Witness ==
    /\ last.op = "add" /\ last.self = "q"
    /\ last.contrib \in Stored(Components("p"))
    /\ objs[last.contrib].owner = "q"

\* The copy c of p: the same name and version, the same keys, under each key
\* components with the same attributes in the same order, and no dict and no
\* component shared with p.
CloneMatches ==
    /\ plugins["c"].name = plugins["p"].name
    /\ plugins["c"].version = plugins["p"].version
    /\ plugins["c"].components # plugins["p"].components
    /\ DOMAIN Components("c") = DOMAIN Components("p")
    /\ \A k \in DOMAIN Components("p") :
          /\ Len(Components("c")[k]) = Len(Components("p")[k])
          /\ \A i \in 1 .. Len(Components("p")[k]) :
                /\ objs[Components("c")[k][i]] = objs[Components("p")[k][i]]
                /\ Components("c")[k][i] # Components("p")[k][i]

\* A step leaves plugin y as it was: its components mapping, its Component
\* Sets, and its components (their owner stamps) other than those of exempt.
Untouched(y, exempt) ==
    /\ plugins'[y] = plugins[y]
    /\ Components(y)' = Components(y)
    /\ \A o \in Stored(Components(y)) \ exempt : objs'[o] = objs[o]

\* C7 as stated: the clone starts equal to the original, and every add / remove
\* on the clone leaves the original's components mapping, Component Sets and
\* owner stamps unchanged, and the other way round.
C7_CopyIsolatesOwnerStamps ==
    [][/\ last'.op = "copy" => CloneMatches'
       /\ \A x \in {"p", "c"} :
            (/\ "c" \in DOMAIN plugins
             /\ last'.op \in {"add", "remove"} /\ last'.self = x)
            => Untouched(IF x = "p" THEN "c" ELSE "p", {})]_vars

\* C7, amended: as above, but the owner stamp is unchanged for every component
\* of the other plugin except the very instance passed to add, which add
\* stamps with the name of the plugin it is called on.
C7_CopyIsolatesCollections ==
    [][/\ last'.op = "copy" => CloneMatches'
       /\ \A x \in {"p", "c"} :
            (/\ "c" \in DOMAIN plugins
             /\ last'.op \in {"add", "remove"} /\ last'.self = x)
            => Untouched(IF x = "p" THEN "c" ELSE "p", {last'.contrib})]_vars

\* C7 happens: a component that the original does not hold was added to the
\* clone of a plugin that holds components.
C7_Witness ==
    /\ "c" \in DOMAIN plugins
    /\ last.op = "add" /\ last.self = "c" /\ last.exc = "none"
    /\ Stored(Components("p")) # {}
    /\ last.contrib \notin Stored(Components("p"))

====
